---------------------------- MODULE Spec2Model ----------------------------
(***************************************************************************)
(* Model of sw/femb0.py: the FEMB0 diagnostic window (FEMB0Diagnostics),   *)
(* its three views (Hist2DView, MeanRMSView, FFTView), the REQ socket it   *)
(* owns and the Qt event loop that dispatches its slots.                   *)
(*                                                                         *)
(* A slot that calls send_command is split at the blocking socket.recv():  *)
(* <slot>_begin runs the slot up to and including socket.send(),           *)
(* <slot>_finish runs it from the return of socket.recv() to its end.      *)
(* Everything else in a slot is sequential code on the one UI thread and   *)
(* is part of the same step.                                               *)
(*                                                                         *)
(* An acquired payload is abstracted to its byte length and to one ADC     *)
(* value held by every sample of the reply (a constant waveform), which    *)
(* is enough to compute what each view derives from it.                    *)
(***************************************************************************)
EXTENDS Integers, Sequences, FiniteSets, TLC

\* ---------------------------------------------------------------- bounds
\* largest sample count (num_samples) a reply reports
MaxN == 1

\* ------------------------------------------------------ program constants
\* reshape((4,128,num)): front-end sub-units
NFEMB == 4
\* reshape((4,128,num)): channels per sub-unit
NCHAN == 128
\* dtype=np.uint16: bytes per sample
SampleSize == 2
\* dtype=np.uint64: bytes per timestamp
StampSize == 8
\* reshape((2,num)): timestamp rows
NSTAMP == 2
\* np.fft.fftfreq(2184,320e-9) in FFTView.__init__
InitFFTLen == 2184
\* self.samples = np.arange(16385) in Hist2DView.__init__: the bin edges
HistEdges == 16385

\* self.views = [Hist2DView(), MeanRMSView(), FFTView()]
ViewOrder == <<"Hist2DView", "MeanRMSView", "FFTView">>
ViewNames == {ViewOrder[i] : i \in 1..Len(ViewOrder)}

\* the ADC values a reply's samples hold: the lowest and the highest value
\* of the histogrammed range
ADCVals == {0, HistEdges - 2}

VARIABLES
    alive,              \* the process is running
    pc,                 \* "idle": the event loop is waiting for an event;
                        \* "recv": a slot is blocked in socket.recv()
    cur,                \* the slot entered last
    trigger,            \* what entered it: "button", "timer" or "none"
                        \* (the constructor)
    sock,               \* REQ socket: "ready" to send or "awaiting" a reply
    wire,               \* the last two calls made on the socket
    req,                \* the last request handed to socket.send()
    rep,                \* the reply socket.recv() returned to that slot
    cfg,                \* what that slot found in the file self.config
    continuious_button, \* text of the Continuous/Stop button
    timer_active,       \* self.timer is running (every 500 ms)
    pulser_button,      \* text of the pulser button
    samples,            \* self.samples
    timestamps,         \* self.timestamps
    views,              \* derived state of each view
    plotted,            \* derived state each view drew at its last plot_data
    calls,              \* load_data / plot_data calls made by the slot
                        \* entered last
    escaped,            \* the exception that left the slot entered last
    before              \* the button state when that slot was entered

vars == <<alive, pc, cur, trigger, sock, wire, req, rep, cfg,
          continuious_button, timer_active, pulser_button,
          samples, timestamps, views, plotted, calls, escaped, before>>

\* ------------------------------------------------------------ data values
\* an attribute that was never assigned (self.samples before any acquisition)
Unset == [set |-> FALSE, n |-> 0, adc |-> 0]

NoRequest == [kind |-> "none", start |-> FALSE]

\* The replies a server can send: a Status or a DeframedDaqSpy, reduced to
\* the fields the client reads.  parse_ok = FALSE is a reply that
\* rep.ParseFromString rejects.  A payload's bytes are its length and, when
\* it holds a whole sample, the ADC value of its samples.
NoReply == [success |-> FALSE, parse_ok |-> TRUE, num_samples |-> 0,
            slen |-> 0, tlen |-> 0, adc |-> 0]

Garbled == [NoReply EXCEPT !.parse_ok = FALSE]

SampleLens == {SampleSize * NFEMB * NCHAN * k : k \in 0..MaxN} \cup {1}
StampLens == {StampSize * NSTAMP * k : k \in 0..MaxN} \cup {StampSize}
ADCOf(slen) == IF slen < SampleSize THEN {0} ELSE ADCVals

StatusReplies ==
    {Garbled} \cup {[NoReply EXCEPT !.success = ok] : ok \in BOOLEAN}

SpyReplies ==
    {Garbled} \cup
    UNION {{[success |-> ok, parse_ok |-> TRUE, num_samples |-> n,
             slen |-> sl, tlen |-> tl, adc |-> a] :
                ok \in BOOLEAN, n \in 0..MaxN, tl \in StampLens, a \in ADCOf(sl)} :
           sl \in SampleLens}

\* what open()/json.load()/the field reads of configure_wib can meet
\* ("none": the slot reads no file)
ConfigFiles == {"none", "missing", "unparsable", "nofield", "valid"}

\* ------------------------------------------------------------- the socket
\* the last two socket calls, oldest first
WireLog(w, call) == IF Len(w) < 2 THEN Append(w, call) ELSE <<w[2], call>>

\* ------------------------------------------------------------ numpy steps
\* np.frombuffer(bytes, dtype): the element count, or ValueError when the
\* byte length is no multiple of the item size
frombuffer(nbytes, itemsize) ==
    [ok |-> nbytes % itemsize = 0, size |-> nbytes \div itemsize]

\* reshape without the element-count check
reshape_unchecked(arr, total) ==
    [ok |-> arr.ok, size |-> total]

\* ndarray.reshape(shape): ValueError unless the element counts agree
reshape(arr, total) ==
    [ok |-> arr.ok /\ arr.size = total, size |-> total]

\* ------------------------------------------------------------------ views
\* Hist2DView.__init__: counts = zeros
Hist2DView_init == [counts |-> [b \in ADCVals |-> 0]]

\* Hist2DView.load_data: per channel, np.histogram of the channel's samples
Hist2DView_load_data(s) ==
    [ok |-> TRUE,
     state |-> [counts |-> [b \in ADCVals |-> IF b = s.adc THEN s.n ELSE 0]]]

\* MeanRMSView.__init__: rms = mean = 0
MeanRMSView_init == [mean |-> 0, rms |-> 0, nan |-> FALSE]

\* MeanRMSView.load_data: np.mean / np.std along the sample axis (nan for
\* an empty axis)
MeanRMSView_load_data(s) ==
    [ok |-> TRUE,
     state |-> IF s.n = 0 THEN [mean |-> 0, rms |-> 0, nan |-> TRUE]
               ELSE [mean |-> s.adc, rms |-> 0, nan |-> FALSE]]

\* FFTView.__init__: freq = the upper half of fftfreq(2184), fft = 1
FFTView_init == [nfreq |-> InitFFTLen - InitFFTLen \div 2, dc |-> 1]

\* FFTView.load_data: np.fft.fftfreq(0, d) divides by zero; otherwise the
\* kept bins are argsort(freq)[len//2::] and the DC bin holds |sum|^2
FFTView_load_data(s) ==
    IF s.n = 0 THEN [ok |-> FALSE, state |-> FFTView_init]
    ELSE [ok |-> TRUE,
          state |-> [nfreq |-> s.n - s.n \div 2,
                     dc |-> (s.n * s.adc) * (s.n * s.adc)]]

load_data(v, ts, s) ==
    CASE v = "Hist2DView" -> Hist2DView_load_data(s)
      [] v = "MeanRMSView" -> MeanRMSView_load_data(s)
      [] v = "FFTView" -> FFTView_load_data(s)

LoadCall(v, ts, s) == [op |-> "load_data", view |-> v, ts |-> ts, s |-> s]
PlotCall(v) == [op |-> "plot_data", view |-> v, ts |-> Unset, s |-> Unset]

\* FEMB0Diagnostics.plot: every view's plot_data, in order
PlotCalls == [i \in 1..Len(ViewOrder) |-> PlotCall(ViewOrder[i])]

\* the loop going on to the next view, and to the plot, when a load_data
\* raises
RECURSIVE load_loop_tolerant(_, _, _, _, _)
load_loop_tolerant(i, vw, cl, ts, s) ==
    IF i > Len(ViewOrder) THEN [ok |-> TRUE, views |-> vw, calls |-> cl]
    ELSE LET v == ViewOrder[i]
             r == load_data(v, ts, s)
             cl2 == Append(cl, LoadCall(v, ts, s))
         IN load_loop_tolerant(i + 1,
                IF r.ok THEN [vw EXCEPT ![v] = r.state] ELSE vw, cl2, ts, s)

\* for view in self.views: view.load_data(self.timestamps, self.samples)
\* The loop ends at the first load_data that raises.
RECURSIVE load_loop(_, _, _, _, _)
load_loop(i, vw, cl, ts, s) ==
    IF i > Len(ViewOrder) THEN [ok |-> TRUE, views |-> vw, calls |-> cl]
    ELSE LET v == ViewOrder[i]
             r == load_data(v, ts, s)
             cl2 == Append(cl, LoadCall(v, ts, s))
         IN IF r.ok THEN load_loop(i + 1, [vw EXCEPT ![v] = r.state], cl2, ts, s)
            ELSE [ok |-> FALSE, views |-> vw, calls |-> cl2]


\* ------------------------------------------------------- the acquisition
\* acquire_data from the return of send_command to its end: decode the two
\* payloads, store them, load every view, plot.  st is the window's data
\* (samples, timestamps, views, plotted); the result adds the calls made on
\* the views and the exception that ended the slot ("none": it returned).
acquire_data_body(r, st) ==
    LET num == r.num_samples
        s == reshape(frombuffer(r.slen, SampleSize), NFEMB * NCHAN * num)
        t == reshape(frombuffer(r.tlen, StampSize), NSTAMP * num)
        sn == s.size \div (NFEMB * NCHAN)
        smp == [set |-> TRUE, n |-> sn, adc |-> IF sn = 0 THEN 0 ELSE r.adc]
        tsp == [set |-> TRUE, n |-> t.size \div NSTAMP, adc |-> 0]
        L == load_loop(1, st.views, <<>>, tsp, smp)
    IN  IF ~s.ok
        THEN [samples |-> st.samples, timestamps |-> st.timestamps,
              views |-> st.views, plotted |-> st.plotted,
              calls |-> <<>>, exc |-> "ValueError"]
        ELSE IF ~t.ok
        THEN [samples |-> smp, timestamps |-> st.timestamps,
              views |-> st.views, plotted |-> st.plotted,
              calls |-> <<>>, exc |-> "ValueError"]
        ELSE IF ~L.ok
        THEN [samples |-> smp, timestamps |-> tsp,
              views |-> L.views, plotted |-> st.plotted,
              calls |-> L.calls, exc |-> "ZeroDivisionError"]
        ELSE [samples |-> smp, timestamps |-> tsp,
              views |-> L.views, plotted |-> L.views,
              calls |-> L.calls \o PlotCalls, exc |-> "none"]

\* ------------------------------------------------------------ slot frames
Snapshot ==
    [continuious_button |-> continuious_button, timer_active |-> timer_active,
     pulser_button |-> pulser_button]

\* the event loop dispatches a slot: only between slots, on the one UI thread
Enter(slot, trig) ==
    /\ alive
    /\ pc = "idle"
    /\ cur' = slot
    /\ trigger' = trig
    /\ before' = Snapshot
    /\ calls' = <<>>

\* the slot returns to the event loop
Return ==
    /\ pc' = "idle"
    /\ escaped' = "none"
    /\ alive' = alive

\* an exception leaves the slot, which has no handler for it: the Qt
\* binding either prints the traceback and returns to the event loop (PyQt4,
\* PyQt5 before 5.5) or ends the process (qFatal, PyQt5 from 5.5 on)
Raise(exc) ==
    /\ pc' = "idle"
    /\ escaped' = exc
    /\ alive' \in BOOLEAN

\* send_command up to self.socket.send(): a REQ socket accepts a send only
\* when no reply is outstanding and raises ZMQError (EFSM) otherwise
send_command_send(r) ==
    /\ wire' = WireLog(wire, "send")
    /\ IF sock = "ready"
       THEN /\ sock' = "awaiting"
            /\ req' = r
            /\ pc' = "recv"
            /\ escaped' = "none"
            /\ alive' = alive
       ELSE /\ UNCHANGED <<sock, req>>
            /\ Raise("ZMQError")

\* send_command returning without reading the reply off the socket
send_command_norecv(r) ==
    /\ rep' = r
    /\ UNCHANGED <<sock, wire>>

\* send_command from the return of self.socket.recv().  The socket is
\* created with no timeout option, so recv returns a reply or keeps the
\* slot blocked; it does not raise on a silent server.
send_command_recv(r) ==
    /\ rep' = r
    /\ sock' = "ready"
    /\ wire' = WireLog(wire, "recv")

Resume(slot) ==
    /\ alive
    /\ pc = "recv"
    /\ cur = slot

\* ------------------------------------------------------------------ slots
\* toggle_continuous whose Stop branch leaves the timer running
toggle_continuous_nostop ==
    /\ Enter("toggle_continuous", "button")
    /\ IF continuious_button = "Continuous"
       THEN /\ continuious_button' = "Stop"
            /\ timer_active' = TRUE
       ELSE /\ continuious_button' = "Continuous"
            /\ UNCHANGED timer_active
    /\ rep' = NoReply
    /\ cfg' = "none"
    /\ Return
    /\ UNCHANGED <<sock, wire, req, pulser_button, samples, timestamps, views,
                   plotted>>

\* toggle_continuous
toggle_continuous ==
    /\ Enter("toggle_continuous", "button")
    /\ IF continuious_button = "Continuous"
       THEN /\ continuious_button' = "Stop"
            /\ timer_active' = TRUE
       ELSE /\ continuious_button' = "Continuous"
            /\ timer_active' = FALSE
    /\ rep' = NoReply
    /\ cfg' = "none"
    /\ Return
    /\ UNCHANGED <<sock, wire, req, pulser_button, samples, timestamps, views,
                   plotted>>

\* acquire_data as a single-shot: it stops the timer that called it
acquire_data_begin_oneshot(trig) ==
    /\ Enter("acquire_data", trig)
    /\ rep' = NoReply
    /\ cfg' = "none"
    /\ send_command_send([kind |-> "ReadDaqSpy", start |-> FALSE])
    /\ timer_active' = FALSE
    /\ UNCHANGED <<continuious_button, pulser_button, samples, timestamps,
                   views, plotted>>

\* acquire_data, lines 298-305 up to socket.send()
acquire_data_begin(trig) ==
    /\ Enter("acquire_data", trig)
    /\ rep' = NoReply
    /\ cfg' = "none"
    /\ send_command_send([kind |-> "ReadDaqSpy", start |-> FALSE])
    /\ UNCHANGED <<continuious_button, timer_active, pulser_button, samples,
                   timestamps, views, plotted>>

\* the Acquire button
click_acquire == acquire_data_begin("button")

\* self.timer.timeout: a tick is delivered by the event loop while the
\* timer runs
timer_timeout ==
    /\ timer_active
    /\ acquire_data_begin("timer")

\* acquire_data, from socket.recv() to the end
acquire_data_finish ==
    /\ Resume("acquire_data")
    /\ \E r \in SpyReplies :
        /\ send_command_recv(r)
        /\ IF ~r.parse_ok
           THEN /\ Raise("DecodeError")
                /\ UNCHANGED <<samples, timestamps, views, plotted, calls>>
           ELSE LET res == acquire_data_body(r,
                              [samples |-> samples, timestamps |-> timestamps,
                               views |-> views, plotted |-> plotted])
                IN  /\ samples' = res.samples
                    /\ timestamps' = res.timestamps
                    /\ views' = res.views
                    /\ plotted' = res.plotted
                    /\ calls' = res.calls
                    /\ IF res.exc = "none" THEN Return ELSE Raise(res.exc)
    /\ UNCHANGED <<cur, trigger, req, cfg, continuious_button, timer_active,
                   pulser_button, before>>

\* configure_wib up to socket.send(): the file is read inside try/except,
\* the fields of the parsed object outside it
configure_wib_begin ==
    /\ Enter("configure_wib", "button")
    /\ rep' = NoReply
    /\ \E f \in ConfigFiles \ {"none"} :
        /\ cfg' = f
        /\ CASE f \in {"missing", "unparsable"} ->
                    /\ Return
                    /\ UNCHANGED <<sock, wire, req>>
             [] f = "nofield" ->
                    /\ Raise("KeyError")
                    /\ UNCHANGED <<sock, wire, req>>
             [] f = "valid" ->
                    send_command_send([kind |-> "ConfigureWIB", start |-> FALSE])
    /\ UNCHANGED <<continuious_button, timer_active, pulser_button, samples,
                   timestamps, views, plotted>>

\* configure_wib, from socket.recv() to the end
configure_wib_finish ==
    /\ Resume("configure_wib")
    /\ \E r \in StatusReplies :
        /\ send_command_recv(r)
        /\ IF r.parse_ok THEN Return ELSE Raise("DecodeError")
    /\ UNCHANGED <<cur, trigger, req, cfg, continuious_button, timer_active,
                   pulser_button, samples, timestamps, views, plotted, calls,
                   before>>

\* toggle_pulser up to socket.send(): the button text is set before the send
toggle_pulser_begin ==
    /\ Enter("toggle_pulser", "button")
    /\ rep' = NoReply
    /\ cfg' = "none"
    /\ LET start == (pulser_button = "Enable Pulser")
       IN  /\ pulser_button' = IF start THEN "Disable Pulser" ELSE "Enable Pulser"
           /\ send_command_send([kind |-> "Pulser", start |-> start])
    /\ UNCHANGED <<continuious_button, timer_active, samples, timestamps,
                   views, plotted>>

\* toggle_pulser, from socket.recv() to the end
toggle_pulser_finish ==
    /\ Resume("toggle_pulser")
    /\ \E r \in StatusReplies :
        /\ send_command_recv(r)
        /\ IF r.parse_ok THEN Return ELSE Raise("DecodeError")
    /\ UNCHANGED <<cur, trigger, req, cfg, continuious_button, timer_active,
                   pulser_button, samples, timestamps, views, plotted, calls,
                   before>>

\* ---------------------------------------------------------- specification
InitViews ==
    [v \in ViewNames |->
        CASE v = "Hist2DView" -> Hist2DView_init
          [] v = "MeanRMSView" -> MeanRMSView_init
          [] v = "FFTView" -> FFTView_init]

\* FEMB0Diagnostics.__init__: socket connected, buttons labelled, timer
\* created but not started, self.plot() called once
Init ==
    /\ alive = TRUE
    /\ pc = "idle"
    /\ cur = "init"
    /\ trigger = "none"
    /\ sock = "ready"
    /\ wire = <<>>
    /\ req = NoRequest
    /\ rep = NoReply
    /\ cfg = "none"
    /\ continuious_button = "Continuous"
    /\ timer_active = FALSE
    /\ pulser_button = "Enable Pulser"
    /\ samples = Unset
    /\ timestamps = Unset
    /\ views = InitViews
    /\ plotted = InitViews
    /\ calls = PlotCalls
    /\ escaped = "none"
    /\ before = [continuious_button |-> "Continuous", timer_active |-> FALSE,
                 pulser_button |-> "Enable Pulser"]

Next ==
    \/ toggle_continuous
    \/ click_acquire
    \/ timer_timeout
    \/ acquire_data_finish
    \/ configure_wib_begin
    \/ configure_wib_finish
    \/ toggle_pulser_begin
    \/ toggle_pulser_finish

Spec == Init /\ [][Next]_vars


\* ------------------------------------------------------------- properties
\* a step that ends acquire_data after a reply was parsed
AcquireEnds == pc = "recv" /\ cur = "acquire_data" /\ pc' = "idle" /\ rep'.parse_ok

\* acquire_data has returned to the event loop after a reply was parsed
AcquireEnded == pc = "idle" /\ cur = "acquire_data" /\ rep.parse_ok

\* a payload of the reply does not hold the element count its num_samples
\* announces: 4*128*N 16-bit samples, 2*N 64-bit timestamps
Mismatch(r) ==
    \/ r.slen # SampleSize * (NFEMB * NCHAN * r.num_samples)
    \/ r.tlen # StampSize * (NSTAMP * r.num_samples)

Loads(cl, v) == {i \in 1..Len(cl) : cl[i].op = "load_data" /\ cl[i].view = v}
Plots(cl) == {i \in 1..Len(cl) : cl[i].op = "plot_data"}
AllLoads(cl) == {i \in 1..Len(cl) : cl[i].op = "load_data"}

\* C1: an acquisition cycle whose reply has success = false leaves the
\* stored samples and timestamps and every view's derived and drawn state
\* as they were, and calls no view's load_data or plot_data.
C1_FailedAcquireAborts ==
    [][(AcquireEnds /\ ~rep'.success) =>
            /\ UNCHANGED <<samples, timestamps, views, plotted>>
            /\ calls' = <<>>]_vars

\* C2: calls on the socket alternate send, recv, send, ...; a request is
\* outstanding exactly while a slot is blocked in recv (so at most one);
\* and while a slot is blocked no slot, timer-driven or not, is entered.
C2_WireAlternates ==
    /\ wire \in {<<>>, <<"send">>, <<"send", "recv">>, <<"recv", "send">>}
    /\ (sock = "awaiting") <=> (pc = "recv")
    /\ (pc = "recv") => (wire # <<>> /\ wire[Len(wire)] = "send")
    /\ (pc = "idle") => (wire = <<>> \/ wire[Len(wire)] = "recv")

C2_SendRecvAlternate ==
    /\ []C2_WireAlternates
    /\ [][(pc = "recv") => (cur' = cur /\ trigger' = trigger /\ pc' = "idle"
                              /\ wire' = <<"send", "recv">>)]_vars

\* a timer-driven acquisition ran to its end after an earlier round trip
C2_Witness ==
    /\ pc = "idle" /\ cur = "acquire_data" /\ trigger = "timer"
    /\ wire = <<"send", "recv">> /\ rep.parse_ok /\ escaped = "none"
    /\ samples.set

\* C3: the window starts Idle with the timer stopped; the timer runs exactly
\* when the button reads 'Stop' (ContinuousPolling) and the button reads
\* 'Continuous' otherwise; every Continuous action flips the state.
C3_TimerMatchesLabel ==
    /\ continuious_button \in {"Continuous", "Stop"}
    /\ timer_active <=> (continuious_button = "Stop")

C3_ContinuousToggle ==
    /\ (continuious_button = "Continuous" /\ ~timer_active)
    /\ []C3_TimerMatchesLabel
    /\ [][(cur' = "toggle_continuous") =>
            /\ continuious_button' # continuious_button
            /\ timer_active' = ~timer_active]_vars

\* Idle -> start -> stop: back in Idle, timer stopped
C3_Witness ==
    /\ cur = "toggle_continuous" /\ pc = "idle"
    /\ before.continuious_button = "Stop" /\ before.timer_active
    /\ continuious_button = "Continuous" /\ ~timer_active

\* C4: an acquisition cycle whose reply holds a samples or timestamps
\* payload of the wrong element count fails (an exception ends the slot) and
\* touches no view: no load_data, no plot_data, derived and drawn state kept.
C4_MismatchTouchesNoView ==
    [][(AcquireEnds /\ Mismatch(rep')) =>
            /\ UNCHANGED <<views, plotted>>
            /\ calls' = <<>>
            /\ escaped' = "ValueError"]_vars

\* a cycle with a mismatched payload ended, after views had been loaded
C4_Witness ==
    /\ AcquireEnded /\ Mismatch(rep) /\ escaped = "ValueError"
    /\ views # InitViews

\* C5: Acquire, Configure and Pulser can be started whenever the event loop
\* is idle, in Idle and in ContinuousPolling, and no step of them changes
\* the Continuous button's text or the timer.
C5_ButtonsEnabled ==
    (alive /\ pc = "idle") =>
        /\ ENABLED click_acquire
        /\ ENABLED configure_wib_begin
        /\ ENABLED toggle_pulser_begin

C5_ActionsKeepMode ==
    /\ []C5_ButtonsEnabled
    /\ [][(cur' \in {"acquire_data", "configure_wib", "toggle_pulser"}) =>
            UNCHANGED <<continuious_button, timer_active>>]_vars

\* a manual Acquire ran to its end in ContinuousPolling
C5_Witness ==
    /\ pc = "idle" /\ cur = "acquire_data" /\ trigger = "button"
    /\ escaped = "none" /\ alive
    /\ continuious_button = "Stop" /\ timer_active

\* C6: no exception leaves a slot and the process never ends on one.
C6_NoErrorEscapes == alive /\ escaped = "none"

\* C7: a Configure that finds the file missing, unparsable or without a
\* required field ends that action only: nothing is sent, buttons, timer,
\* stored data and views are unchanged, and no exception leaves the slot.
C7_BadConfigAbortsActionOnly ==
    [][(cur' = "configure_wib" /\ pc = "idle"
            /\ cfg' \in {"missing", "unparsable", "nofield"}) =>
            /\ UNCHANGED <<sock, wire, req, continuious_button, timer_active,
                           pulser_button, samples, timestamps, views, plotted>>
            /\ escaped' = "none"
            /\ alive']_vars

\* C8: after a Pulser action whose reply reports failure or cannot be
\* parsed, the pulser button reads what it read before the action.
C8_FailedPulserKeepsLabel ==
    (pc = "idle" /\ cur = "toggle_pulser" /\ ~(rep.parse_ok /\ rep.success))
        => pulser_button = before.pulser_button

\* C9: between slots, self.samples and self.timestamps are both unset or
\* both set from one reply, with the same sample count.
C9_SamplesMatchTimestamps ==
    (pc = "idle") =>
        /\ samples.set = timestamps.set
        /\ samples.n = timestamps.n

\* C10: in an acquisition cycle that decoded its reply, every view's
\* load_data is called exactly once, with the stored (timestamps, samples);
\* every load_data call precedes every plot_data call; and when the views
\* were redrawn, every view's derived state is what its load_data computes
\* from the stored pair and is what was drawn.  What the views last drew is
\* always the constructor's state or derived from one sample array.
C10_DrawnFromOneArray ==
    \/ plotted = InitViews
    \/ \E n \in 0..MaxN, a \in ADCVals :
        LET s == [set |-> TRUE, n |-> n, adc |-> a]
        IN \A v \in ViewNames :
            /\ load_data(v, Unset, s).ok
            /\ plotted[v] = load_data(v, Unset, s).state

C10_LoadAllThenPlot ==
    /\ C10_DrawnFromOneArray
    /\ (AcquireEnded /\ ~Mismatch(rep)) =>
        /\ \A v \in ViewNames :
            /\ Cardinality(Loads(calls, v)) = 1
            /\ \A i \in Loads(calls, v) :
                calls[i].ts = timestamps /\ calls[i].s = samples
        /\ \A i \in AllLoads(calls), j \in Plots(calls) : i < j
        /\ (Plots(calls) # {}) =>
            /\ \A v \in ViewNames :
                /\ load_data(v, timestamps, samples).ok
                /\ views[v] = load_data(v, timestamps, samples).state
            /\ plotted = views
            /\ {calls[j].view : j \in Plots(calls)} = ViewNames

\* a cycle decoded a reply with N = 0 after the views had drawn an earlier
\* acquisition: the three load_data calls were made and nothing was redrawn
C10_Witness ==
    /\ AcquireEnded /\ ~Mismatch(rep) /\ rep.num_samples = 0
    /\ Len(calls) = Len(ViewOrder)
    /\ plotted # InitViews
    /\ views # plotted

=============================================================================
